---------------------------- MODULE Spec2Model ----------------------------
(***************************************************************************)
(* Model of ScoringEngine (src/mvp/ai-engine/scoring-engine.js).           *)
(*                                                                         *)
(* Numbers are scaled integers.  A sub-score is held in tenths (5.0 is 50),*)
(* a weight in hundredths (0.30 is 30), a threshold in tenths.  The        *)
(* weighted sum is a double in the code: it is held in ten-thousandths of  *)
(* a point, the exact sum plus the double's representation error, of which *)
(* only the sign can be observed (one unit at most here).                  *)
(*                                                                         *)
(* Text that the code only measures (title, description) is a record of    *)
(* its length and of the pieces the code looks at.  Text that the code     *)
(* parses (the two model responses) is a sequence of characters or of JSON *)
(* tokens, and parseFloat / JSONParse work on that sequence.               *)
(***************************************************************************)
EXTENDS Integers, Sequences, FiniteSets, TLC

(***************************************************************************)
(* Bounds of the model.                                                    *)
(***************************************************************************)
\* Largest number of changed files in a request (the code's bands: 0, 1..5, 6..10, >10).
MaxFiles == 11
\* Latest reading of the wall clock (new Date()) a result can be stamped with.
MaxTime == 2
\* Number of callers that invoke calculateScore on one engine.
MaxCalls == 2

(***************************************************************************)
(* JavaScript helpers.                                                     *)
(***************************************************************************)
Min(a, b) == IF a <= b THEN a ELSE b
Max(a, b) == IF a >= b THEN a ELSE b

\* Math.max(lo, Math.min(hi, score))
Clamp(lo, hi, score) == Max(lo, Min(hi, score))

\* String.prototype.toLowerCase on the word and filename pieces the model uses.
toLowerCase(w) ==
  CASE w = "FIX" -> "fix"
    [] w = "Feat" -> "feat"
    [] w = "Fixes" -> "fixes"
    [] w = "BECAUSE" -> "because"
    [] w = "README" -> "readme"
    [] w = "Readme" -> "readme"
    [] w = ".MD" -> ".md"
    [] OTHER -> w

\* Proper substrings among the pieces the model uses: <<piece, needle>>.
ProperSubstrings ==
  { <<"prefixes", "fixes">>, <<"refactoring", "refactor">>,
    <<".mdx", ".md">>, <<"docs/readme-old", "readme">> }

\* String.prototype.includes on one (lower-cased) piece.
includes(piece, needle) == piece = needle \/ <<piece, needle>> \in ProperSubstrings

(***************************************************************************)
(* Request values.                                                         *)
(*   a string  : [present, len, ...]; absent (undefined/null) has          *)
(*               present = FALSE; the empty string has len = 0.            *)
(*   title     : type is the leading word, sep the character after it.     *)
(*   description: words are pieces occurring in the text.                  *)
(***************************************************************************)
\* JavaScript truthiness of a string-valued field.
Truthy(s) == s.present /\ s.len > 0

NoTitle == [present |-> FALSE, len |-> 0, type |-> "", sep |-> ""]
Title(len, type, sep) == [present |-> TRUE, len |-> len, type |-> type, sep |-> sep]

NoDescription == [present |-> FALSE, len |-> 0, words |-> {}]
Description(len, words) == [present |-> TRUE, len |-> len, words |-> words]

\* A changed file: its filename as pieces ("notes", ".md", ".bak"); hasName = FALSE
\* is an entry without a filename property.
File(parts) == [hasName |-> TRUE, parts |-> parts]
NamelessFile == [hasName |-> FALSE, parts |-> <<>>]
PlainFile == File(<<"src/app", ".js">>)

NoFiles == [present |-> FALSE, list |-> <<>>]
Files(list) == [present |-> TRUE, list |-> list]

NoTests == [present |-> FALSE, len |-> 0]
Tests(n) == [present |-> TRUE, len |-> n]

NoJira ==
  [present |-> FALSE, ticketId |-> "", ticketStatus |-> "", ticketType |-> "", priority |-> ""]
Jira(id, status, type, prio) ==
  [present |-> TRUE, ticketId |-> id, ticketStatus |-> status, ticketType |-> type,
   priority |-> prio]

(***************************************************************************)
(* Heuristic evaluators.                                                   *)
(***************************************************************************)
contextKeywords == {"because", "fixes", "addresses", "implements", "refactor"}

\* description?.toLowerCase().includes(keyword) for some keyword
hasContext(description) ==
  /\ description.present
  /\ \E w \in description.words : \E k \in contextKeywords : includes(toLowerCase(w), k)

\* Faulty variant of analyzeContextScore: a broad change loses 2.0, not 1.0.
analyzeContextScoreBroadLosesTwo(description, files) ==
  LET n == Len(files.list)
      s0 == 50
      s1 == s0 + (IF Truthy(description) /\ description.len > 100 THEN 15 ELSE 0)
      s2 == s1 + (IF Truthy(description) /\ description.len > 300 THEN 10 ELSE 0)
      s3 == s2 + (IF hasContext(description) THEN 15 ELSE 0)
      s4 == s3 + (IF files.present /\ n > 0 /\ n <= 5 THEN 10 ELSE 0)
      s5 == s4 - (IF files.present /\ n > 0 /\ n > 10 THEN 20 ELSE 0)
  IN  Clamp(10, 100, s5)

\* Faulty variant of analyzeContextScore: the test files.length > 0 is missing,
\* so an empty file list counts as a focused change.
analyzeContextScoreEmptyIsFocused(description, files) ==
  LET n == Len(files.list)
      s0 == 50
      s1 == s0 + (IF Truthy(description) /\ description.len > 100 THEN 15 ELSE 0)
      s2 == s1 + (IF Truthy(description) /\ description.len > 300 THEN 10 ELSE 0)
      s3 == s2 + (IF hasContext(description) THEN 15 ELSE 0)
      s4 == s3 + (IF files.present /\ n <= 5 THEN 10 ELSE 0)
      s5 == s4 - (IF files.present /\ n > 10 THEN 10 ELSE 0)
  IN  Clamp(10, 100, s5)

analyzeContextScore(description, files) ==
  LET n == Len(files.list)
      s0 == 50
      s1 == s0 + (IF Truthy(description) /\ description.len > 100 THEN 15 ELSE 0)
      s2 == s1 + (IF Truthy(description) /\ description.len > 300 THEN 10 ELSE 0)
      s3 == s2 + (IF hasContext(description) THEN 15 ELSE 0)
      s4 == s3 + (IF files.present /\ n > 0 /\ n <= 5 THEN 10 ELSE 0)
      s5 == s4 - (IF files.present /\ n > 0 /\ n > 10 THEN 10 ELSE 0)
  IN  Clamp(10, 100, s5)

\* file.filename.toLowerCase().includes("readme") || ...includes(".md")
isDocFile(file) ==
  \E i \in 1..Len(file.parts) :
     \/ includes(toLowerCase(file.parts[i]), "readme")
     \/ includes(toLowerCase(file.parts[i]), ".md")

\* files?.some(...) evaluates the callback in order until it returns true;
\* an entry without a filename makes the callback throw (TypeError).
RECURSIVE someDoc(_)
someDoc(list) ==
  IF list = <<>> THEN [threw |-> FALSE, value |-> FALSE]
  ELSE IF ~Head(list).hasName THEN [threw |-> TRUE, value |-> FALSE]
  ELSE IF isDocFile(Head(list)) THEN [threw |-> FALSE, value |-> TRUE]
  ELSE someDoc(Tail(list))

hasDocUpdates(files) ==
  IF files.present THEN someDoc(files.list) ELSE [threw |-> FALSE, value |-> FALSE]

\* Returns [threw, value]: threw is the TypeError of a file entry without filename.
analyzeCompletenessScore(prData) ==
  LET s0 == 50
      s1 == s0 + (IF Truthy(prData.title) /\ prData.title.len > 10 THEN 10 ELSE 0)
      s2 == s1 + (IF Truthy(prData.description) /\ prData.description.len > 50 THEN 10 ELSE 0)
      s3 == s2 + (IF prData.files.present /\ Len(prData.files.list) > 0 THEN 10 ELSE 0)
      s4 == s3 + (IF prData.tests.present /\ prData.tests.len > 0 THEN 20 ELSE 0)
      doc == hasDocUpdates(prData.files)
      s5 == s4 + (IF doc.value THEN 10 ELSE 0)
  IN  [threw |-> doc.threw, value |-> Clamp(10, 100, s5)]

\* Faulty variant of analyzeJiraLinkScore: no base score for having a context.
analyzeJiraLinkScoreNoBase(jiraContext) ==
  IF ~jiraContext.present THEN 0
  ELSE Clamp(0, 100,
             (IF jiraContext.ticketId # "" THEN 20 ELSE 0)
             + (IF jiraContext.ticketStatus = "In Progress" THEN 10 ELSE 0)
             + (IF jiraContext.ticketType # "" THEN 10 ELSE 0)
             + (IF jiraContext.priority # "" THEN 10 ELSE 0))

\* Faulty variant of analyzeJiraLinkScore: the status is compared in any case.
analyzeJiraLinkScoreAnyCase(jiraContext) ==
  IF ~jiraContext.present THEN 0
  ELSE LET s0 == 50
           s1 == s0 + (IF jiraContext.ticketId # "" THEN 20 ELSE 0)
           s2 == s1 + (IF jiraContext.ticketStatus \in {"In Progress", "in progress"}
                         THEN 10 ELSE 0)
           s3 == s2 + (IF jiraContext.ticketType # "" THEN 10 ELSE 0)
           s4 == s3 + (IF jiraContext.priority # "" THEN 10 ELSE 0)
       IN  Clamp(0, 100, s4)

analyzeJiraLinkScore(jiraContext) ==
  IF ~jiraContext.present THEN 0
  ELSE LET s0 == 50
           s1 == s0 + (IF jiraContext.ticketId # "" THEN 20 ELSE 0)
           s2 == s1 + (IF jiraContext.ticketStatus = "In Progress" THEN 10 ELSE 0)
           s3 == s2 + (IF jiraContext.ticketType # "" THEN 10 ELSE 0)
           s4 == s3 + (IF jiraContext.priority # "" THEN 10 ELSE 0)
       IN  Clamp(0, 100, s4)

commitTypes == {"feat", "fix", "docs", "style", "refactor", "test", "chore"}

\* /^(feat|fix|docs|style|refactor|test|chore):/i.test(title)
matchesCommitPrefix(title) == toLowerCase(title.type) \in commitTypes /\ title.sep = ":"

\* Faulty variant of fallbackClarityScore: the length bounds of the title are inclusive.
fallbackClarityScoreInclusive(title, description) ==
  LET s0 == 50
      s1 == s0 + (IF Truthy(title) /\ title.len >= 10 /\ title.len <= 100 THEN 20 ELSE 0)
      s2 == s1 + (IF Truthy(description) /\ description.len > 50 THEN 20 ELSE 0)
      s3 == s2 + (IF Truthy(title) /\ matchesCommitPrefix(title) THEN 10 ELSE 0)
  IN  Clamp(10, 100, s3)

fallbackClarityScore(title, description) ==
  LET s0 == 50
      s1 == s0 + (IF Truthy(title) /\ title.len > 10 /\ title.len < 100 THEN 20 ELSE 0)
      s2 == s1 + (IF Truthy(description) /\ description.len > 50 THEN 20 ELSE 0)
      s3 == s2 + (IF Truthy(title) /\ matchesCommitPrefix(title) THEN 10 ELSE 0)
  IN  Clamp(10, 100, s3)

(***************************************************************************)
(* Model responses.                                                        *)
(*   kind "error"     : chat.completions.create rejects (network, timeout, *)
(*                      quota)                                             *)
(*   kind "nocontent" : it resolves with message.content = null            *)
(*   kind "text"      : it resolves with text: characters for the clarity  *)
(*                      call, JSON tokens for the suggestion call          *)
(***************************************************************************)
Failure == [kind |-> "error", content |-> <<>>]
NullContent == [kind |-> "nocontent", content |-> <<>>]
Text(content) == [kind |-> "text", content |-> content]

Digits == {"0", "1", "2", "3", "4", "5", "6", "7", "8", "9"}
WhiteSpace == {" ", "\n", "\t"}

DigitValue(c) ==
  CASE c = "0" -> 0 [] c = "1" -> 1 [] c = "2" -> 2 [] c = "3" -> 3 [] c = "4" -> 4
    [] c = "5" -> 5 [] c = "6" -> 6 [] c = "7" -> 7 [] c = "8" -> 8 [] c = "9" -> 9

RECURSIVE trimStart(_)
trimStart(s) ==
  IF s # <<>> /\ Head(s) \in WhiteSpace THEN trimStart(Tail(s)) ELSE s

RECURSIVE trimEnd(_)
trimEnd(s) ==
  IF s # <<>> /\ s[Len(s)] \in WhiteSpace THEN trimEnd(SubSeq(s, 1, Len(s) - 1)) ELSE s

\* String.prototype.trim
trim(s) == trimEnd(trimStart(s))

\* Length of the longest prefix of s made of digits.
RECURSIVE digitRun(_)
digitRun(s) ==
  IF s # <<>> /\ Head(s) \in Digits THEN 1 + digitRun(Tail(s)) ELSE 0

\* Value of a sequence of digits.
RECURSIVE digitsValue(_)
digitsValue(s) ==
  IF s = <<>> THEN 0 ELSE 10 * digitsValue(SubSeq(s, 1, Len(s) - 1)) + DigitValue(s[Len(s)])

\* parseFloat: skips leading white space, reads an optional sign, digits, an
\* optional fraction, and ignores whatever follows; NaN when no digit was read.
\* The value is in tenths: the texts of the model carry at most one fraction digit.
parseFloat(text) ==
  LET s == trimStart(text)
      signed == s # <<>> /\ Head(s) \in {"-", "+"}
      sign == IF s # <<>> /\ Head(s) = "-" THEN -1 ELSE 1
      body == IF signed THEN Tail(s) ELSE s
      ni == digitRun(body)
      rest == SubSeq(body, ni + 1, Len(body))
      frac == IF rest # <<>> /\ Head(rest) = "." THEN Tail(rest) ELSE <<>>
      nf == digitRun(frac)
  IN  IF ni = 0 /\ nf = 0
        THEN [nan |-> TRUE, value |-> 0]
        ELSE [nan |-> FALSE,
              value |-> sign * (10 * digitsValue(SubSeq(body, 1, ni))
                                + (IF nf > 0 THEN DigitValue(frac[1]) ELSE 0))]

(***************************************************************************)
(* JSON.  A response text is a sequence of tokens [t, v]; a parsed value   *)
(* is [kind, v, items].  The texts of the model are scalars, {} and flat   *)
(* arrays of scalars; every other token sequence is a SyntaxError.         *)
(***************************************************************************)
Tok(t, v) == [t |-> t, v |-> v]
Str(v) == [kind |-> "string", v |-> v, items |-> <<>>]
Num(v) == [kind |-> "number", v |-> v, items |-> <<>>]
JsNull == [kind |-> "null", v |-> "", items |-> <<>>]
JsObject == [kind |-> "object", v |-> "", items |-> <<>>]
Arr(items) == [kind |-> "array", v |-> "", items |-> items]

ScalarTokens == {"str", "num", "null"}

scalarValue(tok) ==
  CASE tok.t = "str" -> Str(tok.v)
    [] tok.t = "num" -> Num(tok.v)
    [] OTHER -> JsNull

\* The elements between "[" and "]": scalar ("," scalar)*
RECURSIVE parseElements(_)
parseElements(toks) ==
  IF toks = <<>> \/ Head(toks).t \notin ScalarTokens
    THEN [ok |-> FALSE, items |-> <<>>]
  ELSE IF Len(toks) = 1
    THEN [ok |-> TRUE, items |-> <<scalarValue(toks[1])>>]
  ELSE IF toks[2].t # ","
    THEN [ok |-> FALSE, items |-> <<>>]
  ELSE LET r == parseElements(SubSeq(toks, 3, Len(toks)))
       IN  [ok |-> r.ok, items |-> <<scalarValue(toks[1])>> \o r.items]

\* JSON.parse(text): [ok, value]; ok = FALSE is the SyntaxError.
JSONParse(toks) ==
  LET n == Len(toks)
      bad == [ok |-> FALSE, value |-> JsNull]
  IN  IF n = 0 THEN bad
      ELSE IF n = 1 /\ toks[1].t \in ScalarTokens
        THEN [ok |-> TRUE, value |-> scalarValue(toks[1])]
      ELSE IF n = 2 /\ toks[1].t = "{" /\ toks[2].t = "}"
        THEN [ok |-> TRUE, value |-> JsObject]
      ELSE IF n = 2 /\ toks[1].t = "[" /\ toks[2].t = "]"
        THEN [ok |-> TRUE, value |-> Arr(<<>>)]
      ELSE IF toks[1].t = "[" /\ toks[n].t = "]"
        THEN LET r == parseElements(SubSeq(toks, 2, n - 1))
             IN  IF r.ok THEN [ok |-> TRUE, value |-> Arr(r.items)] ELSE bad
      ELSE bad

\* Array.isArray
isArray(value) == value.kind = "array"

(***************************************************************************)
(* Configuration (config.scoring).                                         *)
(***************************************************************************)
\* config.scoring.weights, in hundredths.
weights == [clarity |-> 30, context |-> 25, completeness |-> 25, jiraLink |-> 20]

\* config.scoring.thresholds, in tenths; the constructor takes whatever the
\* configuration holds, monotonic or not.
ThresholdConfigs ==
  { [excellent |-> 85, good |-> 70, needsImprovement |-> 50],
    [excellent |-> 70, good |-> 80, needsImprovement |-> 50] }

Monotonic(th) == th.needsImprovement <= th.good /\ th.good <= th.excellent

\* Faulty variant of getRating: the comparison with the good threshold is reversed.
getRatingReversedGood(th, score) ==
  IF score >= 1000 * th.excellent THEN "excellent"
  ELSE IF score <= 1000 * th.good THEN "good"
  ELSE IF score >= 1000 * th.needsImprovement THEN "needs-improvement"
  ELSE "poor"

\* getRating(score): score in ten-thousandths, thresholds th in tenths.
getRating(th, score) ==
  IF score >= 1000 * th.excellent THEN "excellent"
  ELSE IF score >= 1000 * th.good THEN "good"
  ELSE IF score >= 1000 * th.needsImprovement THEN "needs-improvement"
  ELSE "poor"

\* Math.round(totalScore * 10) / 10: ten-thousandths to tenths, halves up.
roundTotal(score) == (score + 500) \div 1000

\* Faulty variant of weightedSum: every product is rounded to one decimal place
\* before the products are added.
weightedSumRoundedProducts(s) ==
  1000 * ( (s.clarity * weights.clarity + 50) \div 100
           + (s.context * weights.context + 50) \div 100
           + (s.completeness * weights.completeness + 50) \div 100
           + (s.jiraLink * weights.jiraLink + 50) \div 100 )

\* The exact weighted sum, in ten-thousandths.
weightedSum(s) ==
  10 * (s.clarity * weights.clarity + s.context * weights.context
        + s.completeness * weights.completeness + s.jiraLink * weights.jiraLink)

\* The sum is computed in doubles: products such as 2 * 0.3 are not exact, and
\* the computed sum can lie just below or just above the exact one.  The
\* difference can be observed only where the exact sum is on a rounding tie or
\* on a threshold, that is on a multiple of 0.05.
FloatErrors(exact) == IF exact % 500 = 0 THEN {-1, 0, 1} ELSE {0}

(***************************************************************************)
(* Suggestions.                                                            *)
(***************************************************************************)
\* Faulty variant of Areas: the keys enumerated in alphabetical order.
AreasByName == <<"clarity", "completeness", "context", "jiraLink">>

\* Object.entries(scores) enumerates the keys in insertion order.
Areas == <<"clarity", "context", "completeness", "jiraLink">>

\* The threshold of the filter in generateSuggestions, in tenths.
SuggestionThreshold == 70

\* Faulty variant of isLow: a score equal to the threshold counts as low.
isLowInclusive(score) == score <= SuggestionThreshold

isLow(score) == score < SuggestionThreshold

\* Object.entries(scores).filter(([_, score]) => score < 7).map(([area, _]) => area)
lowAreas(s) == SelectSeq(Areas, LAMBDA a : isLow(s[a]))

Affirmation == Str("Great job! This PR meets all quality standards.")

fallbackText(area) ==
  CASE area = "clarity" -> "Consider adding more descriptive title and detailed description"
    [] area = "context" -> "Provide more context about why this change is needed"
    [] area = "completeness" -> "Add tests and update documentation if needed"
    [] area = "jiraLink" -> "Link this PR to the relevant Jira ticket"
    [] OTHER -> ""

\* lowScoreAreas.map((area) => suggestions[area]).filter(Boolean)
RECURSIVE getFallbackSuggestions(_)
getFallbackSuggestions(lowScoreAreas) ==
  IF lowScoreAreas = <<>> THEN <<>>
  ELSE (IF fallbackText(Head(lowScoreAreas)) # ""
          THEN <<Str(fallbackText(Head(lowScoreAreas)))>> ELSE <<>>)
       \o getFallbackSuggestions(Tail(lowScoreAreas))

(***************************************************************************)
(* The requests and model responses the behaviours draw from.              *)
(***************************************************************************)
RECURSIVE Plain(_)
Plain(n) == IF n = 0 THEN <<>> ELSE <<PlainFile>> \o Plain(n - 1)

Titles == { NoTitle, Title(1, "x", ""), Title(22, "Feat", ":") }

Descriptions ==
  { NoDescription, Description(51, {"Fixes"}), Description(350, {"implements"}) }

FileLists ==
  { NoFiles, Files(Plain(0)), Files(Plain(1)), Files(Plain(MaxFiles)),
    Files(<<PlainFile, File(<<"README", ".md">>), File(<<"test/app.test", ".js">>)>>),
    Files(<<PlainFile, NamelessFile>>),
    Files(<<File(<<"README", ".md">>), NamelessFile>>) }

TestLists == { NoTests, Tests(1) }

JiraContexts ==
  { NoJira, Jira("", "", "", ""), Jira("PROJ-1", "In Progress", "Story", "High") }

\* prData.id, read by the log call of line 55 only.
RequestIds == {"PR-101"}

Requests ==
  [id : RequestIds, title : Titles, description : Descriptions, files : FileLists,
   tests : TestLists, jiraContext : JiraContexts]

\* Every file entry of the request carries a filename (the ChangeRequest of the data model).
ValidRequest(req) ==
  \A i \in 1..Len(req.files.list) : req.files.list[i].hasName

ClarityResponses ==
  { Failure, NullContent,
    Text(<<"8", ".", "5">>), Text(<<"0">>), Text(<<"-", "3">>), Text(<<"1", "5">>),
    Text(<<" ", "7", "\n">>),
    Text(<<"N", "/", "A">>), Text(<<>>) }

SuggestionA == "Describe why the change is needed"
SuggestionB == "Add unit tests for the new code"

SuggestionResponses ==
  { Failure, NullContent,
    Text(<<Tok("[", ""), Tok("str", SuggestionA), Tok(",", ""), Tok("str", SuggestionB),
           Tok("]", "")>>),
    Text(<<Tok("[", ""), Tok("str", SuggestionA), Tok(",", ""), Tok("str", SuggestionA),
           Tok("]", "")>>),
    Text(<<Tok("[", ""), Tok("str", SuggestionA), Tok(",", ""), Tok("num", "42"),
           Tok("]", "")>>),
    Text(<<Tok("{", ""), Tok("}", "")>>),
    Text(<<Tok("str", SuggestionA)>>),
    Text(<<Tok("word", "Here"), Tok("word", "are"), Tok("[", ""), Tok("str", SuggestionA),
           Tok("]", "")>>) }

(***************************************************************************)
(* State.                                                                  *)
(***************************************************************************)
VARIABLES
  thresholds,          \* this.thresholds, set by the constructor
  pc,                  \* where calculateScore stands
  prData,              \* the request of the invocation
  clarityResponse,     \* what the clarity model call gave
  suggestionResponse,  \* what the suggestion model call gave
  scores,              \* clarityScore, contextScore, completenessScore, jiraLinkScore
  totalScore,          \* the local totalScore (unrounded), in ten-thousandths
  lowScoreAreas,       \* generateSuggestions' lowScoreAreas
  modelCalls,          \* model calls issued by the invocation, per purpose
  result,              \* the value calculateScore resolved with
  error,               \* the message of the error calculateScore rejected with
  evalRequest,         \* the request a heuristic evaluator is applied to
  evalScore,           \* the evaluator applied and what it returned
  calls,               \* per caller: the request passed, the model's answers, the outcome
  frames               \* per invocation of calculateScore: its local variables

\* One invocation of calculateScore.
scoringVars ==
  <<pc, prData, clarityResponse, suggestionResponse, scores,
    totalScore, lowScoreAreas, modelCalls, result, error>>
\* The heuristic evaluators on their own.
evalVars == <<evalRequest, evalScore>>
\* Several invocations on one engine.
engineVars == <<calls, frames>>

vars == <<thresholds, scoringVars, evalVars, engineVars>>

NoResponse == [kind |-> "none", content |-> <<>>]
NoScores == [clarity |-> -1, context |-> -1, completeness |-> -1, jiraLink |-> -1]
NoResult == [none |-> TRUE]
NoRequest ==
  [id |-> "", title |-> NoTitle, description |-> NoDescription, files |-> NoFiles,
   tests |-> NoTests, jiraContext |-> NoJira]
ScoringFailure == "Failed to calculate PR score"

\* Readings of the wall clock.
Times == 1..MaxTime

ResultFields == {"totalScore", "breakdown", "rating", "suggestions", "timestamp"}

\* Callers of calculateScore on one engine.
Callers == 1..MaxCalls

NotEvaluated == [fn |-> "none", threw |-> FALSE, value |-> -1]
NoCall ==
  [status |-> "none", request |-> NoRequest, clarityResponse |-> NoResponse,
   suggestionResponse |-> NoResponse, overlapped |-> FALSE, result |-> NoResult,
   error |-> ""]
NoFrame ==
  [pc |-> "idle", prData |-> NoRequest, scores |-> NoScores, floatError |-> 0,
   totalScore |-> 0, lowScoreAreas |-> <<>>]

EvalIdle ==
  /\ evalRequest = NoRequest
  /\ evalScore = NotEvaluated

EngineIdle ==
  /\ calls = [i \in Callers |-> NoCall]
  /\ frames = [i \in Callers |-> NoFrame]

ScoringIdle ==
  /\ pc = "idle"
  /\ prData = NoRequest
  /\ clarityResponse = NoResponse
  /\ suggestionResponse = NoResponse
  /\ scores = NoScores
  /\ totalScore = 0
  /\ lowScoreAreas = <<>>
  /\ modelCalls = [clarity |-> 0, suggestions |-> 0]
  /\ result = NoResult
  /\ error = ""

Init ==
  /\ thresholds \in ThresholdConfigs
  /\ EvalIdle
  /\ EngineIdle
  /\ pc = "idle"
  /\ prData = NoRequest
  /\ clarityResponse = NoResponse
  /\ suggestionResponse = NoResponse
  /\ scores = NoScores
  /\ totalScore = 0
  /\ lowScoreAreas = <<>>
  /\ modelCalls = [clarity |-> 0, suggestions |-> 0]
  /\ result = NoResult
  /\ error = ""

(***************************************************************************)
(* analyzeClarityScore, from the model's response on.                      *)
(***************************************************************************)
\* Faulty variant of parsedClarity: the lower bound of the clamp is missing.
parsedClarityNoFloor(content) ==
  LET score == parseFloat(trim(content))
  IN  IF score.nan THEN 50 ELSE Min(100, score.value)

\* Lines 94-95: parseFloat(content.trim()), NaN gives 5.0, a number is clamped.
parsedClarity(content) ==
  LET score == parseFloat(trim(content))
  IN  IF score.nan THEN 50 ELSE Clamp(10, 100, score.value)

\* The try body throws when the call rejects or content is null; the catch
\* returns fallbackClarityScore.
analyzeClarityScore(response, title, description) ==
  IF response.kind = "text"
    THEN parsedClarity(response.content)
    ELSE fallbackClarityScore(title, description)

(***************************************************************************)
(* generateSuggestions, from the model's response on: [threw, value].      *)
(***************************************************************************)
\* Lines 216-221.  lowScoreAreas is declared with const inside the try block,
\* so the catch block's use of it is an unresolvable reference: evaluating the
\* argument of getFallbackSuggestions throws a ReferenceError out of the catch.
catchSuggestions(low) == [threw |-> TRUE, value |-> <<>>]

\* Lines 212-215, inside the try block, where lowScoreAreas is in scope.
\* JSON.parse(null) is null.
parsedSuggestions(response, low) ==
  LET parsed == IF response.kind = "nocontent"
                  THEN [ok |-> TRUE, value |-> JsNull]
                  ELSE JSONParse(response.content)
  IN  IF ~parsed.ok THEN catchSuggestions(low)
      ELSE IF isArray(parsed.value) THEN [threw |-> FALSE, value |-> parsed.value.items]
      ELSE [threw |-> FALSE, value |-> getFallbackSuggestions(low)]

generateSuggestions(response, low) ==
  IF response.kind = "error" THEN catchSuggestions(low) ELSE parsedSuggestions(response, low)

(***************************************************************************)
(* calculateScore.                                                         *)
(***************************************************************************)
\* Faulty variant of makeResult: the breakdown lacks the jiraLink dimension.
makeResultNoJiraLink(s, total, th, suggestions, now) ==
  [totalScore |-> roundTotal(total),
   breakdown |-> [clarity |-> s.clarity, context |-> s.context,
                  completeness |-> s.completeness],
   rating |-> getRating(th, total),
   suggestions |-> suggestions,
   timestamp |-> now]

\* Faulty variant of makeResult: the reported total depends on the clock reading.
makeResultClockInTotal(s, total, th, suggestions, now) ==
  [totalScore |-> roundTotal(total) + (now - 1),
   breakdown |-> [clarity |-> s.clarity, context |-> s.context,
                  completeness |-> s.completeness, jiraLink |-> s.jiraLink],
   rating |-> getRating(th, total),
   suggestions |-> suggestions,
   timestamp |-> now]

\* Lines 36-52: the result object.
makeResult(s, total, th, suggestions, now) ==
  [totalScore |-> roundTotal(total),
   breakdown |-> [clarity |-> s.clarity, context |-> s.context,
                  completeness |-> s.completeness, jiraLink |-> s.jiraLink],
   rating |-> getRating(th, total),
   suggestions |-> suggestions,
   timestamp |-> now]

\* Lines 61-64: whatever was thrown, calculateScore rejects with one error.
Fail ==
  /\ pc' = "failed"
  /\ result' = NoResult
  /\ error' = ScoringFailure

Return(r) ==
  /\ pc' = "returned"
  /\ result' = r
  /\ error' = ""

\* calculateScore is called: up to the first await, the clarity model call.
Invoke(req) ==
  /\ pc = "idle"
  /\ prData' = req
  /\ pc' = "awaitClarity"
  /\ clarityResponse' = NoResponse
  /\ suggestionResponse' = NoResponse
  /\ scores' = NoScores
  /\ totalScore' = 0
  /\ lowScoreAreas' = <<>>
  /\ modelCalls' = [clarity |-> 1, suggestions |-> 0]
  /\ result' = NoResult
  /\ error' = ""
  /\ UNCHANGED <<thresholds, evalVars, engineVars>>

\* The clarity call settles: the rest of analyzeClarityScore, the three
\* heuristic evaluators, the weighted sum, and generateSuggestions up to its
\* own model call (or its return when no area is low).
ClarityResponds(response, now, err) ==
  /\ pc = "awaitClarity"
  /\ clarityResponse' = response
  /\ LET clarityScore == analyzeClarityScore(response, prData.title, prData.description)
         contextScore == analyzeContextScore(prData.description, prData.files)
         completeness == analyzeCompletenessScore(prData)
         jiraLinkScore == analyzeJiraLinkScore(prData.jiraContext)
         s == [clarity |-> clarityScore, context |-> contextScore,
               completeness |-> completeness.value, jiraLink |-> jiraLinkScore]
         total == weightedSum(s) + err
         low == lowAreas(s)
     IN  IF completeness.threw
           THEN /\ err = 0
                /\ Fail
                /\ scores' = [NoScores EXCEPT !.clarity = clarityScore,
                                              !.context = contextScore]
                /\ UNCHANGED <<totalScore, lowScoreAreas, modelCalls>>
           ELSE /\ err \in FloatErrors(weightedSum(s))
                /\ scores' = s
                /\ totalScore' = total
                /\ lowScoreAreas' = low
                /\ IF low = <<>>
                     THEN /\ Return(makeResult(s, total, thresholds, <<Affirmation>>, now))
                          /\ UNCHANGED modelCalls
                     ELSE /\ pc' = "awaitSuggestions"
                          /\ modelCalls' = [modelCalls EXCEPT !.suggestions = @ + 1]
                          /\ UNCHANGED <<result, error>>
  /\ UNCHANGED <<thresholds, prData, suggestionResponse, evalVars, engineVars>>

\* The suggestion call settles: the rest of generateSuggestions and of calculateScore.
SuggestionResponds(response, now) ==
  /\ pc = "awaitSuggestions"
  /\ suggestionResponse' = response
  /\ LET suggestions == generateSuggestions(response, lowScoreAreas)
     IN  IF suggestions.threw
           THEN Fail
           ELSE Return(makeResult(scores, totalScore, thresholds, suggestions.value, now))
  /\ UNCHANGED <<thresholds, prData, clarityResponse, scores, totalScore,
                 lowScoreAreas, modelCalls, evalVars, engineVars>>

Next ==
  \/ \E req \in Requests : Invoke(req)
  \/ \E response \in ClarityResponses, now \in Times, err \in {-1, 0, 1} :
        ClarityResponds(response, now, err)
  \/ \E response \in SuggestionResponses, now \in Times : SuggestionResponds(response, now)

Spec == Init /\ [][Next]_vars

(***************************************************************************)
(* Properties.                                                             *)
(***************************************************************************)
Done == pc \in {"returned", "failed"}
ClarityDone == pc \in {"awaitSuggestions", "returned", "failed"}
SuggestionCallMade == modelCalls.suggestions > 0
Dimensions == {"clarity", "context", "completeness", "jiraLink"}

\* No field and no dimension is missing from the result.
CompleteResult(r) ==
  /\ DOMAIN r = ResultFields
  /\ DOMAIN r.breakdown = Dimensions

\* C1: when the model client fails on every call (the clarity call, and the
\* suggestion call if one is made), calculateScore on a valid request returns a
\* complete result, never fails, and the clarity sub-score of the breakdown is
\* fallbackClarityScore(title, description).
C1_ModelFailureStillReturns ==
  ( /\ Done
    /\ ValidRequest(prData)
    /\ clarityResponse = Failure
    /\ (SuggestionCallMade => suggestionResponse = Failure) )
  => /\ pc = "returned"
     /\ CompleteResult(result)
     /\ result.breakdown.clarity = fallbackClarityScore(prData.title, prData.description)

\* The parse of the suggestion response: JSON.parse(null) is null.
SuggestionParse ==
  IF suggestionResponse.kind = "nocontent"
    THEN [ok |-> TRUE, value |-> JsNull]
    ELSE JSONParse(suggestionResponse.content)

\* The suggestion call raised an error, or its text is no JSON, or it parses to
\* something that is not a list.
SuggestionUnusable ==
  \/ suggestionResponse.kind = "error"
  \/ ~SuggestionParse.ok
  \/ ~isArray(SuggestionParse.value)

\* The fixed suggestions of exactly the weak dimensions, in breakdown order.
ExpectedFallback ==
  LET weak(a) == scores[a] < 70
      text(a) == CASE a = "clarity" ->
                        "Consider adding more descriptive title and detailed description"
                   [] a = "context" -> "Provide more context about why this change is needed"
                   [] a = "completeness" -> "Add tests and update documentation if needed"
                   [] a = "jiraLink" -> "Link this PR to the relevant Jira ticket"
      one(a) == IF weak(a) THEN <<Str(text(a))>> ELSE <<>>
  IN  one("clarity") \o one("context") \o one("completeness") \o one("jiraLink")

\* C2: with at least one weak dimension, a suggestion call that raises an error,
\* returns text that is no JSON, or returns JSON that is not a list, ends in the
\* fallback suggestions of exactly the weak dimensions, and no error reaches the
\* caller of generateSuggestions.
C2_SuggestionFallbackOnFailure ==
  (Done /\ SuggestionCallMade /\ SuggestionUnusable)
  => /\ pc = "returned"
     /\ result.suggestions = ExpectedFallback

\* The clarity response is text that does not parse as a number.
ClarityNotNumeric ==
  /\ clarityResponse.kind = "text"
  /\ parseFloat(trim(clarityResponse.content)).nan

\* C3: when the clarity call succeeds with non-numeric or empty text,
\* analyzeClarityScore returns fallbackClarityScore(title, description).
C3_NonNumericClarityIsFallback ==
  (ClarityDone /\ ClarityNotNumeric)
  => scores.clarity = fallbackClarityScore(prData.title, prData.description)

\* C4: an invocation ends either with a complete result (totalScore, a breakdown
\* of all four dimensions, rating, suggestions, timestamp) or with the single
\* scoring failure; before it ends there is neither a result nor an error.
C4_CompleteResultOrFailure ==
  /\ pc = "returned" => (CompleteResult(result) /\ error = "")
  /\ pc = "failed" => (result = NoResult /\ error = ScoringFailure)
  /\ ~Done => (result = NoResult /\ error = "")

\* C4 witness: an invocation failed after its suggestion call, and the model
\* client had answered the clarity call.
C4_Witness ==
  /\ pc = "failed"
  /\ SuggestionCallMade
  /\ clarityResponse.kind = "text"
  /\ error = ScoringFailure

\* C5: in every returned breakdown clarity, context and completeness lie in
\* [1,10] and the ticket link in [0,10], and the ticket-link sub-score is 0
\* exactly when the request has no ticket context.
C5_SubScoresInRange ==
  pc = "returned"
  => LET b == result.breakdown
     IN  /\ \A d \in {"clarity", "context", "completeness"} : b[d] >= 10 /\ b[d] <= 100
         /\ b.jiraLink >= 0 /\ b.jiraLink <= 100
         /\ (b.jiraLink = 0) <=> ~prData.jiraContext.present

\* C5 witness: a result whose clarity came from an out-of-range model answer,
\* for a request with a ticket context that has no field set.
C5_Witness ==
  /\ pc = "returned"
  /\ clarityResponse = Text(<<"1", "5">>)
  /\ prData.jiraContext = Jira("", "", "", "")
  /\ result.breakdown.clarity = 100
  /\ result.breakdown.jiraLink = 50

\* The weighted sum of a breakdown, exact, in thousandths of a point.
BreakdownSum(b) ==
  b.clarity * weights.clarity + b.context * weights.context
  + b.completeness * weights.completeness + b.jiraLink * weights.jiraLink

\* C6: the totalScore of a result is the weighted sum of the four sub-scores of
\* its own breakdown rounded to one decimal place: it is the tenth nearest to
\* the unrounded sum, so no sub-score and no product was rounded on the way.
C6_TotalIsRoundedWeightedSum ==
  pc = "returned"
  => LET sum == BreakdownSum(result.breakdown)
     IN  /\ 100 * result.totalScore - 50 <= sum
         /\ sum <= 100 * result.totalScore + 50

\* C6 witness: a result whose weighted sum is not a whole number of tenths and
\* was rounded up.
C6_Witness ==
  /\ pc = "returned"
  /\ BreakdownSum(result.breakdown) % 100 = 75
  /\ 100 * result.totalScore = BreakdownSum(result.breakdown) + 25

\* C7: the rating of a result is the band of the totalScore reported in the same
\* result (>= excellent, else >= good, else >= needsImprovement, else poor).
C7_RatingIsBandOfReportedTotal ==
  (pc = "returned" /\ Monotonic(thresholds))
  => result.rating =
       ( IF result.totalScore >= thresholds.excellent THEN "excellent"
         ELSE IF result.totalScore >= thresholds.good THEN "good"
         ELSE IF result.totalScore >= thresholds.needsImprovement THEN "needs-improvement"
         ELSE "poor" )

Rank(band) ==
  CASE band = "poor" -> 0
    [] band = "needs-improvement" -> 1
    [] band = "good" -> 2
    [] band = "excellent" -> 3

\* Scores from 0 to 10 in steps of 0.25, and the doubles just below and above them.
ScoreGrid == { 2500 * k + d : k \in 0..40, d \in {-1, 0, 1} }

\* C8: with needsImprovement <= good <= excellent, getRating is monotonic: a
\* lower score never gets a higher band.  Checked between the total of the
\* invocation and every score of the grid.
C8_RatingMonotonic ==
  (ClarityDone /\ Monotonic(thresholds))
  => \A t \in ScoreGrid :
        /\ t < totalScore
           => Rank(getRating(thresholds, t)) <= Rank(getRating(thresholds, totalScore))
        /\ totalScore < t
           => Rank(getRating(thresholds, totalScore)) <= Rank(getRating(thresholds, t))

\* C8 witness: a result rated "good" under monotonic thresholds, with lower
\* scores of the grid in every lower band and higher ones in the higher band.
C8_Witness ==
  /\ pc = "returned"
  /\ Monotonic(thresholds)
  /\ result.rating = "good"
  /\ \E t \in ScoreGrid : t < totalScore /\ getRating(thresholds, t) = "poor"
  /\ \E t \in ScoreGrid : t > totalScore /\ getRating(thresholds, t) = "excellent"

\* C9: a clarity response that parses as a number gives that number clamped to
\* [1,10]: below 1 gives 1, above 10 gives 10, inside the range it is unchanged.
C9_ParsedClarityClamped ==
  (ClarityDone /\ clarityResponse.kind = "text" /\ ~ClarityNotNumeric)
  => LET v == parseFloat(trim(clarityResponse.content)).value
     IN  /\ v < 10 => scores.clarity = 10
         /\ v > 100 => scores.clarity = 100
         /\ (10 <= v /\ v <= 100) => scores.clarity = v
         /\ clarityResponse.content = <<"0">> => scores.clarity = 10
         /\ clarityResponse.content = <<"-", "3">> => scores.clarity = 10
         /\ clarityResponse.content = <<"1", "5">> => scores.clarity = 100
         /\ clarityResponse.content = <<"8", ".", "5">> => scores.clarity = 85

\* C9 witness: the model answered "-3" and the clarity sub-score is 1.
C9_Witness ==
  /\ ClarityDone
  /\ clarityResponse = Text(<<"-", "3">>)
  /\ scores.clarity = 10

\* C10: when no sub-score is strictly below 7, generateSuggestions returns the
\* one fixed affirmation and makes no model call; a sub-score of exactly 7 is
\* not weak.
C10_AffirmationWhenNoWeakDimension ==
  (ClarityDone /\ \A d \in Dimensions : scores[d] >= 70)
  => /\ pc = "returned"
     /\ result.suggestions = <<Str("Great job! This PR meets all quality standards.")>>
     /\ modelCalls.suggestions = 0
     /\ suggestionResponse = NoResponse

\* C10 witness: a result with a sub-score of exactly 7 and no weak dimension.
C10_Witness ==
  /\ pc = "returned"
  /\ result.breakdown.clarity = 70
  /\ \A d \in Dimensions : result.breakdown[d] >= 70
  /\ Len(result.suggestions) = 1

\* The suggestion response parsed to something that is not a list, so line 215
\* took the fallback inside the try block.
FallbackTaken ==
  /\ pc = "returned"
  /\ SuggestionCallMade
  /\ suggestionResponse.kind # "error"
  /\ SuggestionParse.ok
  /\ ~isArray(SuggestionParse.value)

NoDuplicates(list) ==
  \A i, j \in 1..Len(list) : list[i] = list[j] => i = j

\* The position of the fixed suggestion of a weak dimension in the list: one
\* more than the number of weak dimensions that precede it in canonical order.
WeakBefore(b, d) ==
  LET before == CASE d = "clarity" -> {}
                  [] d = "context" -> {"clarity"}
                  [] d = "completeness" -> {"clarity", "context"}
                  [] d = "jiraLink" -> {"clarity", "context", "completeness"}
  IN  Cardinality({e \in before : b[e] < 70})

FixedSuggestion(d) ==
  CASE d = "clarity" -> Str("Consider adding more descriptive title and detailed description")
    [] d = "context" -> Str("Provide more context about why this change is needed")
    [] d = "completeness" -> Str("Add tests and update documentation if needed")
    [] d = "jiraLink" -> Str("Link this PR to the relevant Jira ticket")

\* C11: a fallback suggestion list holds exactly one fixed string per weak
\* dimension and none for a dimension that is not weak, has no duplicates, and
\* is in the order clarity, context, completeness, ticket link.
C11_FallbackOnePerWeakDimension ==
  FallbackTaken
  => LET b == result.breakdown
         list == result.suggestions
     IN  /\ Len(list) = Cardinality({d \in Dimensions : b[d] < 70})
         /\ NoDuplicates(list)
         /\ \A d \in Dimensions :
              IF b[d] < 70
                THEN list[WeakBefore(b, d) + 1] = FixedSuggestion(d)
                ELSE \A i \in 1..Len(list) : list[i] # FixedSuggestion(d)

\* C11 witness: a fallback list for a breakdown whose context and ticket link
\* are weak and whose clarity and completeness are not.
C11_Witness ==
  /\ FallbackTaken
  /\ result.breakdown.clarity >= 70
  /\ result.breakdown.context < 70
  /\ result.breakdown.completeness >= 70
  /\ result.breakdown.jiraLink < 70
  /\ Len(result.suggestions) = 2

\* The suggestion response parsed to a list.
ModelListTaken ==
  /\ pc = "returned"
  /\ SuggestionCallMade
  /\ suggestionResponse.kind # "error"
  /\ SuggestionParse.ok
  /\ isArray(SuggestionParse.value)

WellFormedStrings(list) ==
  /\ \A i \in 1..Len(list) : list[i].kind = "string"
  /\ NoDuplicates(list)

\* C12: every list returned by generateSuggestions is a sequence of text
\* strings without duplicates, and a model response that parses to a list that
\* is not one (it holds numbers, objects or repeated entries) is replaced by
\* the fallback suggestions.
C12_SuggestionsAreDistinctStrings ==
  /\ pc = "returned" => WellFormedStrings(result.suggestions)
  /\ (ModelListTaken /\ ~WellFormedStrings(SuggestionParse.value.items))
       => result.suggestions = ExpectedFallback

\* C13: thresholds that are not monotonic (needsImprovement <= good <=
\* excellent) are rejected when the engine is constructed, so no engine that
\* serves calculateScore has such thresholds.
C13_ServingEngineHasMonotonicThresholds ==
  pc # "idle" => Monotonic(thresholds)

\* At most one clarity call and one suggestion call, and the suggestion call
\* only once the clarity call has settled and the four sub-scores are known.
NoRetry ==
  /\ modelCalls.clarity <= 1
  /\ modelCalls.suggestions <= 1
  /\ SuggestionCallMade
       => /\ clarityResponse # NoResponse
          /\ \A d \in Dimensions : scores[d] >= 0

\* A failed or malformed model call is followed by the fallback computation of
\* its purpose: the heuristic clarity score, the fixed suggestions.
FallbackFollowsFailure ==
  /\ (ClarityDone /\ (clarityResponse.kind # "text" \/ ClarityNotNumeric))
       => scores.clarity = fallbackClarityScore(prData.title, prData.description)
  /\ (Done /\ SuggestionCallMade /\ SuggestionUnusable)
       => (pc = "returned" /\ result.suggestions = getFallbackSuggestions(lowScoreAreas))

\* C16: an invocation never retries a model call: it makes at most one clarity
\* call and at most one suggestion call, the suggestion call only after the
\* clarity evaluation is complete and all four sub-scores are known, and a
\* failed or malformed call is followed by the fallback computation, never by
\* another model call.
C16_NoRetryThenFallback ==
  /\ NoRetry
  /\ FallbackFollowsFailure

\* A file entry of the request has no filename and is reached by the
\* documentation test of analyzeCompletenessScore.
CompletenessEvaluatorThrows == analyzeCompletenessScore(prData).threw

\* C17: the four sub-score computations are fault-isolated: a failure in one
\* dimension (the clarity model call, or an exception raised by an evaluator on
\* a malformed field such as a file entry without a filename) neither aborts
\* the computation of the other three nor makes calculateScore fail.
C17_SubScoreFaultIsolation ==
  /\ (ClarityDone /\ (clarityResponse = Failure \/ CompletenessEvaluatorThrows))
       => /\ scores.clarity >= 0
          /\ scores.context >= 0
          /\ scores.jiraLink >= 0
  /\ (Done /\ ~SuggestionCallMade /\ (clarityResponse = Failure \/ CompletenessEvaluatorThrows))
       => pc = "returned"

\* C18: every returned result carries a requestId field that equals the
\* identifier of the request it was computed for.
C18_ResultCarriesRequestId ==
  pc = "returned"
  => /\ "requestId" \in DOMAIN result
     /\ result.requestId = prData.id

(***************************************************************************)
(* The heuristic evaluators on their own: one of them is applied to a      *)
(* request drawn from the boundary cases of its rules.                     *)
(***************************************************************************)
\* Titles at the length bounds of the rules, and titles that start with a type
\* word: each of the seven types before a colon, in other cases, before another
\* character, and words that are no type.
EvalTitles ==
  { NoTitle, Title(0, "", ""), Title(1, "x", ""), Title(10, "x", ""), Title(11, "x", ""),
    Title(99, "x", ""), Title(100, "x", ""), Title(101, "x", "") }
  \cup {Title(22, type, ":") : type \in commitTypes}
  \cup { Title(22, "Feat", ":"), Title(5, "FIX", ":"), Title(22, "feat", "("),
         Title(22, "feat", " "), Title(22, "feature", ":"), Title(22, "wip", ":"),
         Title(100, "docs", ":") }

\* The titles analyzeCompletenessScore tells apart.
EvalCompletenessTitles ==
  {NoTitle, Title(10, "x", ""), Title(11, "x", ""), Title(22, "Feat", ":")}

\* Every combination of the four ticket fields, and no ticket context.
EvalJiraContexts ==
  {NoJira}
  \cup { Jira(id, status, type, prio) :
           id \in {"", "PROJ-1"}, status \in {"", "In Progress", "in progress", "Done"},
           type \in {"", "Story"}, prio \in {"", "High"} }

EvalDescriptions ==
  { NoDescription, Description(0, {}),
    Description(20, {"Fixes"}), Description(20, {"refactor"}),
    Description(50, {"why"}), Description(51, {"BECAUSE"}),
    Description(100, {"prefixes"}), Description(101, {"why"}),
    Description(101, {"refactoring"}), Description(300, {"addresses"}),
    Description(301, {"why"}), Description(301, {"implements"}) }

EvalFileLists ==
  {NoFiles} \cup {Files(Plain(n)) : n \in 0..MaxFiles}
  \cup { Files(<<File(<<"notes", ".md", ".bak">>)>>),
         Files(<<File(<<"README">>)>>),
         Files(<<PlainFile, File(<<"docs/guide", ".MD">>)>>),
         Files(<<File(<<"docs/readme-old", ".txt">>)>>),
         Files(<<PlainFile, NamelessFile>>),
         Files(<<File(<<"Readme", ".md">>), NamelessFile>>) }

EvalTests == {NoTests, Tests(0), Tests(1)}

\* The arguments of fallbackClarityScore, of analyzeContextScore and
\* analyzeCompletenessScore, and of analyzeJiraLinkScore.
EvalRequests ==
  [id : RequestIds, title : EvalTitles, description : EvalDescriptions,
   files : {NoFiles}, tests : {NoTests}, jiraContext : {NoJira}]
  \cup
  [id : RequestIds, title : EvalCompletenessTitles, description : EvalDescriptions,
   files : EvalFileLists, tests : EvalTests, jiraContext : {NoJira}]
  \cup
  [id : RequestIds, title : {NoTitle}, description : {NoDescription},
   files : {NoFiles}, tests : {NoTests}, jiraContext : EvalJiraContexts]

InitEval ==
  /\ thresholds \in ThresholdConfigs
  /\ ScoringIdle
  /\ EngineIdle
  /\ evalRequest \in EvalRequests
  /\ evalScore = NotEvaluated

Evaluated(fn, threw, value) ==
  /\ evalScore = NotEvaluated
  /\ evalScore' = [fn |-> fn, threw |-> threw, value |-> value]
  /\ UNCHANGED <<thresholds, evalRequest, scoringVars, engineVars>>

EvaluateContext ==
  Evaluated("analyzeContextScore", FALSE,
            analyzeContextScore(evalRequest.description, evalRequest.files))

EvaluateCompleteness ==
  LET score == analyzeCompletenessScore(evalRequest)
  IN  Evaluated("analyzeCompletenessScore", score.threw, score.value)

EvaluateJiraLink ==
  Evaluated("analyzeJiraLinkScore", FALSE, analyzeJiraLinkScore(evalRequest.jiraContext))

EvaluateFallbackClarity ==
  Evaluated("fallbackClarityScore", FALSE,
            fallbackClarityScore(evalRequest.title, evalRequest.description))

NextEval ==
  \/ EvaluateContext
  \/ EvaluateCompleteness
  \/ EvaluateJiraLink
  \/ EvaluateFallbackClarity

SpecEval == InitEval /\ [][NextEval]_vars

\* The length of a string field, 0 when the field is absent.
LengthOf(field) == IF field.present THEN field.len ELSE 0
\* The number of entries of the file list, 0 when the list is absent.
FileCount(files) == IF files.present THEN Len(files.list) ELSE 0

Bounded(lo, hi, raw) == IF raw < lo THEN lo ELSE IF raw > hi THEN hi ELSE raw

\* Words of the descriptions that hold one of the five keywords, in any case.
KeywordBearing ==
  {"Fixes", "refactor", "BECAUSE", "prefixes", "refactoring", "addresses", "implements"}

\* C19: analyzeContextScore is 5.0, plus 1.5 for a description longer than 100,
\* plus 1.0 more if longer than 300, plus 1.5 if the description contains
\* because, fixes, addresses, implements or refactor in any case, plus 1.0 for
\* 1 to 5 files, minus 1.0 for more than 10 files, nothing for 0 or for 6 to 10
\* files, clamped to [1,10]; with no description text and no file it is 5.0.
C19_ContextScoreRules ==
  evalScore.fn = "analyzeContextScore"
  => LET len == LengthOf(evalRequest.description)
         n == FileCount(evalRequest.files)
         keyword == /\ evalRequest.description.present
                    /\ evalRequest.description.words \cap KeywordBearing # {}
         text == 50 + (IF len > 100 THEN 15 ELSE 0) + (IF len > 300 THEN 10 ELSE 0)
                    + (IF keyword THEN 15 ELSE 0)
         scope == IF n >= 1 /\ n <= 5 THEN 10 ELSE IF n > 10 THEN -10 ELSE 0
     IN  /\ ~evalScore.threw
         /\ evalScore.value = Bounded(10, 100, text + scope)
         /\ (n = 0 \/ (n >= 6 /\ n <= 10)) => evalScore.value = Bounded(10, 100, text)
         /\ (len = 0 /\ n = 0) => evalScore.value = 50

\* C19 witness: a description of 301 characters with a keyword and a change of
\* more than 10 files scores 5 + 1.5 + 1 + 1.5 - 1 = 8.
C19_Witness ==
  /\ evalScore.fn = "analyzeContextScore"
  /\ evalRequest.description = Description(301, {"implements"})
  /\ FileCount(evalRequest.files) = 11
  /\ evalScore.value = 80

\* The filename ends with a markdown extension, in any case.
EndsWithMarkdown(file) ==
  /\ file.parts # <<>>
  /\ file.parts[Len(file.parts)] \in {".md", ".MD", ".markdown"}

ContainsReadme(file) ==
  \E i \in 1..Len(file.parts) :
     file.parts[i] \in {"README", "Readme", "readme", "docs/readme-old"}

\* C20: analyzeCompletenessScore is 5.0, plus 1 for a title longer than 10,
\* plus 1 for a description longer than 50, plus 1 for at least one file, plus
\* 2 for at least one test reference, plus 1 if some filename contains
\* "readme" in any case or ends with a markdown extension, clamped to [1,10];
\* "notes.md.bak" earns no documentation bonus.
C20_CompletenessScoreRules ==
  (evalScore.fn = "analyzeCompletenessScore" /\ ValidRequest(evalRequest))
  => LET files == evalRequest.files.list
         doc == \E i \in 1..Len(files) : ContainsReadme(files[i]) \/ EndsWithMarkdown(files[i])
         raw == 50 + (IF LengthOf(evalRequest.title) > 10 THEN 10 ELSE 0)
                   + (IF LengthOf(evalRequest.description) > 50 THEN 10 ELSE 0)
                   + (IF FileCount(evalRequest.files) >= 1 THEN 10 ELSE 0)
                   + (IF evalRequest.tests.present /\ evalRequest.tests.len >= 1 THEN 20 ELSE 0)
                   + (IF doc THEN 10 ELSE 0)
     IN  /\ ~evalScore.threw
         /\ evalScore.value = Bounded(10, 100, raw)

(***************************************************************************)
(* Several invocations on one engine.  calculateScore is an async method:  *)
(* it runs until an await (the clarity call, the suggestion call), and     *)
(* other invocations run while it is suspended.  Its variables are const   *)
(* and let locals, so each invocation has an activation record of its own; *)
(* the engine object holds only openai, weights and thresholds.            *)
(***************************************************************************)
\* Faulty variant of frame: the locals are kept in one place for all invocations.
frameShared(i) == 1

\* The activation record of caller i's invocation.
frame(i) == i

\* A request with weak dimensions whatever the clarity call gives, and whose
\* weighted sum is on no rounding tie.
WeakRequest ==
  [id |-> "PR-101", title |-> Title(1, "x", ""), description |-> Description(101, {"why"}),
   files |-> NoFiles, tests |-> NoTests, jiraContext |-> NoJira]
StrongRequest ==
  [id |-> "PR-101", title |-> Title(22, "Feat", ":"),
   description |-> Description(350, {"implements"}),
   files |-> Files(<<PlainFile, File(<<"README", ".md">>), File(<<"test/app.test", ".js">>)>>),
   tests |-> Tests(1), jiraContext |-> Jira("PROJ-1", "In Progress", "Story", "High")]
ThrowingRequest ==
  [WeakRequest EXCEPT !.files = Files(<<PlainFile, NamelessFile>>)]

EngineRequests == {WeakRequest, StrongRequest, ThrowingRequest}
EngineClarityResponses == {Failure, Text(<<"8", ".", "5">>)}
EngineSuggestionResponses ==
  { Failure,
    Text(<<Tok("[", ""), Tok("str", SuggestionA), Tok(",", ""), Tok("str", SuggestionB),
           Tok("]", "")>>) }

Resolved(call, response, r) ==
  [call EXCEPT !.status = "resolved", !.result = r]
Rejected(call) ==
  [call EXCEPT !.status = "rejected", !.error = ScoringFailure]

\* Caller i calls calculateScore: up to the first await.
EngineInvoke(i, req) ==
  /\ calls[i].status = "none"
  /\ LET busy == {j \in Callers \ {i} : calls[j].status = "pending"}
     IN  calls' = [j \in Callers |->
                     IF j = i
                       THEN [NoCall EXCEPT !.status = "pending", !.request = req,
                                           !.overlapped = (busy # {})]
                     ELSE IF j \in busy THEN [calls[j] EXCEPT !.overlapped = TRUE]
                     ELSE calls[j]]
  /\ frames' = [frames EXCEPT ![frame(i)] =
                   [NoFrame EXCEPT !.pc = "awaitClarity", !.prData = req]]
  /\ UNCHANGED <<thresholds, scoringVars, evalVars>>

\* The clarity call of caller i's invocation settles.  The double sum of equal
\* sub-scores is the same double in every invocation.
EngineClarityResponds(i, response, now, err) ==
  /\ calls[i].status = "pending"
  /\ frames[frame(i)].pc = "awaitClarity"
  /\ LET f == frames[frame(i)]
         call == [calls[i] EXCEPT !.clarityResponse = response]
         clarityScore ==
           analyzeClarityScore(response, f.prData.title, f.prData.description)
         contextScore == analyzeContextScore(f.prData.description, f.prData.files)
         completeness == analyzeCompletenessScore(f.prData)
         jiraLinkScore == analyzeJiraLinkScore(f.prData.jiraContext)
         s == [clarity |-> clarityScore, context |-> contextScore,
               completeness |-> completeness.value, jiraLink |-> jiraLinkScore]
         total == weightedSum(s) + err
         low == lowAreas(s)
     IN  IF completeness.threw
           THEN /\ err = 0
                /\ frames' = [frames EXCEPT ![frame(i)] =
                                [f EXCEPT !.pc = "done",
                                          !.scores = [NoScores EXCEPT
                                                        !.clarity = clarityScore,
                                                        !.context = contextScore]]]
                /\ calls' = [calls EXCEPT ![i] = Rejected(call)]
           ELSE /\ err \in FloatErrors(weightedSum(s))
                /\ \A j \in Callers : frames[j].scores = s => err = frames[j].floatError
                /\ frames' = [frames EXCEPT ![frame(i)] =
                                [f EXCEPT !.pc = IF low = <<>> THEN "done"
                                                 ELSE "awaitSuggestions",
                                          !.scores = s,
                                          !.floatError = err,
                                          !.totalScore = total,
                                          !.lowScoreAreas = low]]
                /\ calls' = [calls EXCEPT ![i] =
                               IF low = <<>>
                                 THEN Resolved(call, response,
                                        makeResult(s, total, thresholds, <<Affirmation>>, now))
                                 ELSE call]
  /\ UNCHANGED <<thresholds, scoringVars, evalVars>>

\* The suggestion call of caller i's invocation settles.
EngineSuggestionResponds(i, response, now) ==
  /\ calls[i].status = "pending"
  /\ frames[frame(i)].pc = "awaitSuggestions"
  /\ LET f == frames[frame(i)]
         call == [calls[i] EXCEPT !.suggestionResponse = response]
         suggestions == generateSuggestions(response, f.lowScoreAreas)
     IN  /\ frames' = [frames EXCEPT ![frame(i)] = [f EXCEPT !.pc = "done"]]
         /\ calls' = [calls EXCEPT ![i] =
                        IF suggestions.threw
                          THEN Rejected(call)
                          ELSE Resolved(call, response,
                                 makeResult(f.scores, f.totalScore, thresholds,
                                            suggestions.value, now))]
  /\ UNCHANGED <<thresholds, scoringVars, evalVars>>

\* The earliest and the latest reading of the wall clock.
EngineTimes == {1, MaxTime}

NextEngine ==
  \E i \in Callers :
     \/ \E req \in EngineRequests : EngineInvoke(i, req)
     \/ \E response \in EngineClarityResponses, now \in EngineTimes, err \in {-1, 0, 1} :
           EngineClarityResponds(i, response, now, err)
     \/ \E response \in EngineSuggestionResponses, now \in EngineTimes :
           EngineSuggestionResponds(i, response, now)

\* An engine constructed with a configuration whose thresholds are in order.
InitEngine ==
  /\ thresholds \in {th \in ThresholdConfigs : Monotonic(th)}
  /\ ScoringIdle
  /\ EvalIdle
  /\ EngineIdle

SpecEngine == InitEngine /\ [][NextEngine]_vars

Finished(i) == calls[i].status \in {"resolved", "rejected"}

\* What the caller can observe of an outcome apart from the timestamp and the
\* suggestions: its kind, and for a result the total, the breakdown and the rating.
Outcome(call) ==
  IF call.status = "resolved"
    THEN [kind |-> "resolved", totalScore |-> call.result.totalScore,
          breakdown |-> call.result.breakdown, rating |-> call.result.rating]
    ELSE [kind |-> call.status, totalScore |-> -1, breakdown |-> NoScores, rating |-> ""]

SameInputs(i, j) ==
  /\ calls[i].request = calls[j].request
  /\ calls[i].clarityResponse = calls[j].clarityResponse
  /\ calls[i].suggestionResponse = calls[j].suggestionResponse

\* C14: two invocations with the same request and the same model responses or
\* failures have the same totalScore, breakdown, rating and kind of outcome;
\* only the timestamp may differ, whether the invocations follow each other or
\* overlap.
C14_SameInputsSameOutcome ==
  \A i, j \in Callers :
     (Finished(i) /\ Finished(j) /\ SameInputs(i, j))
     => Outcome(calls[i]) = Outcome(calls[j])

\* C14 witness: two invocations of the same weak request, one after the other,
\* with the same answers from the model, returned results with different
\* timestamps.
C14_Witness ==
  /\ calls[1].status = "resolved" /\ calls[2].status = "resolved"
  /\ calls[1].request = WeakRequest
  /\ SameInputs(1, 2)
  /\ ~calls[1].overlapped /\ ~calls[2].overlapped
  /\ calls[1].suggestionResponse.kind = "text"
  /\ calls[1].result.timestamp # calls[2].result.timestamp

\* The outcomes of an invocation that runs alone on an engine with thresholds
\* th: the body of calculateScore on the request and the two responses.
RunAlone(req, clarity, suggestion, th) ==
  LET completeness == analyzeCompletenessScore(req)
      s == [clarity |-> analyzeClarityScore(clarity, req.title, req.description),
            context |-> analyzeContextScore(req.description, req.files),
            completeness |-> completeness.value,
            jiraLink |-> analyzeJiraLinkScore(req.jiraContext)]
      exact == weightedSum(s)
      low == lowAreas(s)
      generated == IF low = <<>> THEN [threw |-> FALSE, value |-> <<Affirmation>>]
                   ELSE generateSuggestions(suggestion, low)
      rejected == [kind |-> "rejected", totalScore |-> -1, breakdown |-> NoScores,
                   rating |-> "", suggestions |-> <<>>]
  IN  IF completeness.threw \/ generated.threw
        THEN {rejected}
        ELSE { [kind |-> "resolved", totalScore |-> roundTotal(exact + e),
                breakdown |-> s, rating |-> getRating(th, exact + e),
                suggestions |-> generated.value] : e \in FloatErrors(exact) }

FullOutcome(call) ==
  IF call.status = "resolved"
    THEN [kind |-> "resolved", totalScore |-> call.result.totalScore,
          breakdown |-> call.result.breakdown, rating |-> call.result.rating,
          suggestions |-> call.result.suggestions]
    ELSE [kind |-> call.status, totalScore |-> -1, breakdown |-> NoScores,
          rating |-> "", suggestions |-> <<>>]

\* Every finished invocation has an outcome of its own request and responses
\* run alone.
IsolatedOutcomes ==
  \A i \in Callers :
     Finished(i)
     => FullOutcome(calls[i]) \in
          RunAlone(calls[i].request, calls[i].clarityResponse,
                   calls[i].suggestionResponse, thresholds)

\* C15: invocations may interleave at the two model calls; each result depends
\* only on the invocation's own request and model responses and equals the
\* result of that invocation run alone, and the configuration of the engine is
\* never written after construction.
C15_InterleavedInvocationsIsolated ==
  /\ []IsolatedOutcomes
  /\ [][thresholds' = thresholds]_vars

\* C15 witness: an invocation of the weak request and one of the strong
\* request overlapped and both returned, with different results.
C15_Witness ==
  /\ calls[1].status = "resolved" /\ calls[2].status = "resolved"
  /\ calls[1].overlapped /\ calls[2].overlapped
  /\ calls[1].request = WeakRequest
  /\ calls[2].request = StrongRequest
  /\ calls[1].suggestionResponse.kind = "text"
  /\ calls[1].result.breakdown # calls[2].result.breakdown

\* C21: analyzeJiraLinkScore is 0 without a ticket context; with one it is 5.0,
\* plus 2.0 for a ticket identifier, plus 1.0 if the status is exactly
\* "In Progress", plus 1.0 for a ticket type, plus 1.0 for a priority, clamped
\* to [0,10]; all four give exactly 10, and the statuses "in progress" and
\* "Done" earn nothing.
C21_JiraLinkScoreRules ==
  evalScore.fn = "analyzeJiraLinkScore"
  => LET j == evalRequest.jiraContext
         fields == 50 + (IF j.ticketId # "" THEN 20 ELSE 0)
                      + (IF j.ticketType # "" THEN 10 ELSE 0)
                      + (IF j.priority # "" THEN 10 ELSE 0)
     IN  /\ ~evalScore.threw
         /\ ~j.present => evalScore.value = 0
         /\ (j.present /\ j.ticketStatus = "In Progress")
              => evalScore.value = Bounded(0, 100, fields + 10)
         /\ (j.present /\ j.ticketStatus # "In Progress")
              => evalScore.value = Bounded(0, 100, fields)
         /\ j = Jira("PROJ-1", "In Progress", "Story", "High") => evalScore.value = 100
         /\ j = Jira("PROJ-1", "in progress", "Story", "High") => evalScore.value = 90
         /\ j = Jira("PROJ-1", "Done", "Story", "High") => evalScore.value = 90

\* C21 witness: a ticket context with every field set and the status
\* "in progress" scores 9.
C21_Witness ==
  /\ evalScore.fn = "analyzeJiraLinkScore"
  /\ evalRequest.jiraContext = Jira("PROJ-1", "in progress", "Story", "High")
  /\ evalScore.value = 90

\* The type words that the titles start with, as the claim lists them.
TypePrefixes == {"feat", "fix", "docs", "style", "refactor", "test", "chore"}
\* The same words as the titles spell them in another case.
TypePrefixesOtherCase == {"Feat", "FIX"}

\* C22: fallbackClarityScore is 5.0, plus 2.0 if the title length is strictly
\* between 10 and 100 (10 and 100 earn nothing), plus 2.0 if the description
\* length is above 50, plus 1.0 if the title starts with one of feat, fix,
\* docs, style, refactor, test, chore (in any case) immediately followed by a
\* colon, clamped to [1,10]; a title of one character with an empty
\* description gives exactly 5.0.
C22_FallbackClarityRules ==
  evalScore.fn = "fallbackClarityScore"
  => LET title == evalRequest.title
         tlen == LengthOf(title)
         dlen == LengthOf(evalRequest.description)
         prefix == /\ tlen > 0
                   /\ title.type \in TypePrefixes \cup TypePrefixesOtherCase
                   /\ title.sep = ":"
         raw == 50 + (IF tlen > 10 /\ tlen < 100 THEN 20 ELSE 0)
                   + (IF dlen > 50 THEN 20 ELSE 0)
                   + (IF prefix THEN 10 ELSE 0)
     IN  /\ ~evalScore.threw
         /\ evalScore.value = Bounded(10, 100, raw)
         /\ (tlen \in {10, 100} /\ dlen <= 50 /\ ~prefix) => evalScore.value = 50
         /\ (title = Title(1, "x", "") /\ dlen = 0) => evalScore.value = 50

\* C22 witness: a title of 100 characters that starts with "docs:" earns the
\* prefix bonus and no length bonus, and with a description of 51 characters
\* the score is 5 + 2 + 1 = 8.
C22_Witness ==
  /\ evalScore.fn = "fallbackClarityScore"
  /\ evalRequest.title = Title(100, "docs", ":")
  /\ evalRequest.description.len = 51
  /\ evalScore.value = 80

\* The clarity sub-score is the number the model answered (clamped).
ClarityFromModel ==
  /\ clarityResponse.kind = "text"
  /\ ~ClarityNotNumeric

\* The ranges of the deterministic evaluators, on the sub-scores of the
\* invocation and on the fallback clarity score of its request: context in
\* [4,10], completeness in [5,10], fallback clarity in [5,10], ticket link 0 or
\* in [5,10].
EvaluatorRanges ==
  ClarityDone
  => /\ scores.context >= 40 /\ scores.context <= 100
     /\ scores.completeness >= 0
          => (scores.completeness >= 50 /\ scores.completeness <= 100)
     /\ scores.jiraLink >= 0
          => (scores.jiraLink = 0 \/ (scores.jiraLink >= 50 /\ scores.jiraLink <= 100))
     /\ LET fallback == fallbackClarityScore(prData.title, prData.description)
        IN  /\ fallback >= 50 /\ fallback <= 100
            /\ ~ClarityFromModel => scores.clarity >= 50

\* C23, as stated: the lower clamp bounds of the deterministic evaluators are
\* unreachable (context in [4,10], completeness in [5,10], fallback clarity in
\* [5,10], ticket link 0 or in [5,10]), hence in a breakdown only a
\* model-supplied clarity score can be below 4.
C23_OnlyModelClarityBelowFour ==
  /\ EvaluatorRanges
  /\ pc = "returned"
       => \A d \in Dimensions :
             result.breakdown[d] < 40 => (d = "clarity" /\ ClarityFromModel)

\* C23, amended: the same ranges, and in a breakdown the only sub-scores below
\* 4 are a model-supplied clarity score and the ticket-link score 0 of a
\* request without ticket context.
C23_LowerClampsUnreachable ==
  /\ EvaluatorRanges
  /\ pc = "returned"
       => \A d \in Dimensions :
             result.breakdown[d] < 40
             => \/ d = "clarity" /\ ClarityFromModel
                \/ d = "jiraLink" /\ result.breakdown[d] = 0 /\ ~prData.jiraContext.present

\* C23 witness: a breakdown with the lowest context score (4.0, more than 10
\* files and no description), the lowest completeness of such a request, a
\* ticket link of 5.0 and a clarity of 1.0 answered by the model.
C23_Witness ==
  /\ pc = "returned"
  /\ result.breakdown.context = 40
  /\ result.breakdown.completeness = 60
  /\ result.breakdown.jiraLink = 50
  /\ result.breakdown.clarity = 10
  /\ ClarityFromModel

=============================================================================
